---- MODULE Spec2Model ----
(***************************************************************************)
(* A model of textLSP's document text-mapping engine:                      *)
(*   - BaseDocument: offset <-> position arithmetic and paragraph           *)
(*     segmentation over the raw text (documents/document.py),             *)
(*   - OffsetPositionIntervalList: the interval index (types.py),          *)
(*   - TreeSitterDocument / LatexDocument: the cleaning pipeline,          *)
(*   - ChangeTracker: the run-length change ledger.                        *)
(* Texts are sequences of one-character strings.  "\n" is the line break,  *)
(* "W" stands for one character outside the Basic Multilingual Plane (one  *)
(* code point in a Python str, two UTF-16 code units), every other         *)
(* character is an ordinary one.                                           *)
(***************************************************************************)
EXTENDS Integers, Sequences, FiniteSets, TLC

VARIABLES
    source,     \* Document._source: the raw text
    ret,        \* the last call made and what it returned
    intervals,  \* a stand-alone OffsetPositionIntervalList: its columns
    latex,      \* the LaTeX document whose text source is, as tokens
    cleaned_source,  \* CleanableDocument._cleaned_source
    text_intervals,  \* TreeSitterDocument._text_intervals
    items,      \* ChangeTracker._items: the ledger of runs
    full_document_change,  \* ChangeTracker.full_document_change
    readers,    \* each concurrent reader of a document: its call, the
                \* statement it is at and its local variables
    lock,       \* the holder of the lock of synchronized, 0 when it is free
    cleanings,  \* how many times _clean_source was started
    event,      \* the lifecycle event the AnalyserHandler is handling
    tasks,      \* the task of every analyser for the event
    messages    \* the errors shown to the user (show_message)

\* the state of a ChangeTracker
trackerVars == <<items, full_document_change>>

\* the readers of a document that run concurrently
readerVars == <<readers, lock, cleanings>>

\* the state of an AnalyserHandler that handles an event
handlerVars == <<event, tasks, messages>>

vars == <<source, ret, intervals, latex, cleaned_source, text_intervals,
          items, full_document_change, readers, lock, cleanings,
          event, tasks, messages>>

----------------------------------------------------------------------------
(* Bounds of the model *)

\* longest raw text drawn for the raw-document lookups
MaxLen == 4
\* longest span asked of range_at_offset, and largest min_length
MaxSpan == 2
\* most entries of a stand-alone interval list
MaxEntries == 2
\* largest offset and column of an entry of a stand-alone interval list
MaxOffset == 2
MaxChar == 2
\* most tokens that follow the opening \section of a LaTeX document
MaxToks == 3
\* the same, for the documents that are edited
MaxEditToks == 2
\* a tracked text: its greatest length, and the most edits made to it
MaxTrackedLen == 3
MaxEdits == 2
\* the longest text a range of paragraphs is asked of
MaxParaLen == 5
\* the readers of one document that run concurrently
MaxReaders == 2
\* the analysers an AnalyserHandler holds
MaxAnalysers == 2

NL == "\n"
Wide == "W"
Chars == {"a", NL, Wide}

Min(a, b) == IF a < b THEN a ELSE b
Max(a, b) == IF a > b THEN a ELSE b

\* all texts over cs of length at most n
TextsUpTo(cs, n) == UNION {[1..k -> cs] : k \in 0..n}

\* the text of spec scenario 1: "Hello world.\n\nSecond paragraph."
ScenarioText ==
    <<"H","e","l","l","o"," ","w","o","r","l","d",".",NL,NL,
      "S","e","c","o","n","d"," ","p","a","r","a","g","r","a","p","h",".">>

----------------------------------------------------------------------------
(* Results of the Python calls.  A call returns a value, returns None, or  *)
(* raises.                                                                 *)

Ok(v) == [kind |-> "ok", val |-> v]
None == [kind |-> "none"]
Raise(e) == [kind |-> "raise", err |-> e]

Position(l, c) == [line |-> l, character |-> c]
Range(s, e) == [start |-> s, end |-> e]
Interval(s, n) == [start |-> s, length |-> n]

----------------------------------------------------------------------------
(* Python's sequence operations, on 0-based indices *)

\* s[:n]
PyPrefix(s, n) ==
    IF n >= 0 THEN SubSeq(s, 1, Min(n, Len(s)))
    ELSE SubSeq(s, 1, Max(Len(s) + n, 0))

\* s[n:]
PySuffix(s, n) ==
    IF n >= 0 THEN SubSeq(s, Min(n, Len(s)) + 1, Len(s))
    ELSE SubSeq(s, Max(Len(s) + n, 0) + 1, Len(s))

\* s[i] is defined (no IndexError)
PyIndexOk(s, i) == -Len(s) <= i /\ i < Len(s)

\* s[i]
PyAt(s, i) == IF i >= 0 THEN s[i + 1] ELSE s[Len(s) + i + 1]

\* s[a:b] for a, b >= 0
PySlice(s, a, b) == SubSeq(s, Min(a, Len(s)) + 1, Min(b, Len(s)))

RECURSIVE SumLen(_)
\* sum(len(line) for line in ls)
SumLen(ls) == IF ls = <<>> THEN 0 ELSE Len(Head(ls)) + SumLen(Tail(ls))

RECURSIVE FirstBreak(_, _)
\* index (1-based) of the first line break of s at or after i, 0 when none
FirstBreak(s, i) ==
    IF i > Len(s) THEN 0
    ELSE IF s[i] = NL THEN i
    ELSE FirstBreak(s, i + 1)

RECURSIVE splitlines(_)
\* str.splitlines(True): the lines of s, each with its line break
splitlines(s) ==
    IF s = <<>> THEN <<>>
    ELSE LET b == FirstBreak(s, 1) IN
         IF b = 0 THEN <<s>>
         ELSE <<SubSeq(s, 1, b)>> \o splitlines(SubSeq(s, b + 1, Len(s)))

\* Document.lines
lines(src) == splitlines(src)

----------------------------------------------------------------------------
(* OffsetPositionIntervalList (types.py): seven parallel columns *)

EmptyIntervalList ==
    [offset_start |-> <<>>, offset_end |-> <<>>,
     position_start_line |-> <<>>, position_start_character |-> <<>>,
     position_end_line |-> <<>>, position_end_character |-> <<>>,
     value |-> <<>>]

\* add_interval_values
add_interval_values(lst, offset_start, offset_end, position_start_line, position_start_character, position_end_line, position_end_character, value) ==
    [offset_start |-> Append(lst.offset_start, offset_start),
     offset_end |-> Append(lst.offset_end, offset_end),
     position_start_line |->
         Append(lst.position_start_line, position_start_line),
     position_start_character |->
         Append(lst.position_start_character, position_start_character),
     position_end_line |-> Append(lst.position_end_line, position_end_line),
     position_end_character |->
         Append(lst.position_end_character, position_end_character),
     value |-> Append(lst.value, value)]

\* __len__
IntervalCount(lst) == Len(lst.offset_start)

\* get_interval(idx), idx 0-based
get_interval(lst, idx) ==
    [offset_interval |->
         Interval(lst.offset_start[idx + 1],
                  lst.offset_end[idx + 1] - lst.offset_start[idx + 1] + 1),
     position_range |->
         Range(Position(lst.position_start_line[idx + 1],
                        lst.position_start_character[idx + 1]),
               Position(lst.position_end_line[idx + 1],
                        lst.position_end_character[idx + 1])),
     value |-> lst.value[idx + 1]]

\* sorted(enumerate(a), key=lambda x: x[1]), its indices (1-based): the
\* sort is stable, so index i comes after the indices of smaller keys and
\* after the smaller indices of equal keys
sorted_indices(a) ==
    LET before(i) == {j \in 1..Len(a) : a[j] < a[i] \/ (a[j] = a[i] /\ j < i)}
    IN  [k \in 1..Len(a) |->
            CHOOSE i \in 1..Len(a) : Cardinality(before(i)) = k - 1]

\* sort(): the six offset and position columns are rebuilt in the order of
\* the start offsets; the column of the values is not
sort(lst) ==
    LET indices == sorted_indices(lst.offset_start)
        by_indices(column) == [k \in 1..Len(indices) |-> column[indices[k]]]
    IN  [offset_start |-> by_indices(lst.offset_start),
         offset_end |-> by_indices(lst.offset_end),
         position_start_line |-> by_indices(lst.position_start_line),
         position_start_character |->
             by_indices(lst.position_start_character),
         position_end_line |-> by_indices(lst.position_end_line),
         position_end_character |-> by_indices(lst.position_end_character),
         value |-> lst.value]

RECURSIVE bisect_search(_, _, _, _)
\* the loop of bisect.bisect_left on a[lo:hi] (0-based bounds)
bisect_search(a, x, lo, hi) ==
    IF lo < hi
    THEN LET mid == (lo + hi) \div 2 IN
         IF a[mid + 1] < x THEN bisect_search(a, x, mid + 1, hi)
         ELSE bisect_search(a, x, lo, mid)
    ELSE lo

\* bisect.bisect_left(a, x)
bisect_left(a, x) == bisect_search(a, x, 0, Len(a))

\* a plausible slip in get_idx_at_offset: the search runs over the start
\* offsets
get_idx_at_offset_by_start(lst, offset) ==
    LET idx == bisect_left(lst.offset_start, offset) IN
    IF /\ idx < Len(lst.offset_end)
       /\ lst.offset_start[idx + 1] <= offset
       /\ offset <= lst.offset_end[idx + 1]
    THEN Ok(idx)
    ELSE None

get_idx_at_offset(lst, offset) ==
    LET idx == bisect_left(lst.offset_end, offset) IN
    IF /\ idx < Len(lst.offset_end)
       /\ lst.offset_start[idx + 1] <= offset
       /\ offset <= lst.offset_end[idx + 1]
    THEN Ok(idx)
    ELSE None

get_interval_at_offset(lst, offset) ==
    LET idx == get_idx_at_offset(lst, offset) IN
    IF idx.kind = "none" THEN None ELSE Ok(get_interval(lst, idx.val))

RECURSIVE end_characters_of_run(_, _, _)
\* the while loop of get_idx_at_position: the end characters of the
\* intervals from i on that end on the line the interval idx ends on
end_characters_of_run(lst, idx, i) ==
    IF lst.position_end_line[i + 1] = lst.position_end_line[idx + 1]
    THEN <<lst.position_end_character[i + 1]>>
         \o (IF i + 1 >= IntervalCount(lst) THEN <<>>
             ELSE end_characters_of_run(lst, idx, i + 1))
    ELSE <<>>

get_idx_at_position(lst, position, strict) ==
    LET idx == bisect_left(lst.position_end_line, position.line)
        length == IntervalCount(lst)
        Miss(i) == IF strict THEN None ELSE Ok(i)
    IN
    IF idx = length THEN Miss(length - 1)
    ELSE IF position.line < lst.position_start_line[idx + 1] THEN Miss(idx)
    ELSE IF position.line > lst.position_end_line[idx + 1]
         THEN Miss(length - 1)
    ELSE
    LET run == end_characters_of_run(lst, idx, idx)
        idx2 == bisect_left(run, position.character)
        at == idx + idx2
    IN
    IF at = length THEN Miss(length - 1)
    ELSE IF /\ lst.position_start_character[at + 1] <= position.character
            /\ position.character <= lst.position_end_character[at + 1]
         THEN Ok(at)
    ELSE IF \/ position.line < lst.position_start_line[at + 1]
            \/ position.character < lst.position_start_character[at + 1]
         THEN Miss(at)
    ELSE Miss(Min(at + 1, length - 1))

get_interval_at_position(lst, position, strict) ==
    LET idx == get_idx_at_position(lst, position, strict) IN
    IF idx.kind = "none" THEN None
    ELSE IF idx.val < 0 THEN Raise("IndexError")
    ELSE Ok(get_interval(lst, idx.val))

----------------------------------------------------------------------------
(* pygls: position_from_utf16, called by BaseDocument.offset_at_position   *)

\* utf16_unit_offset: the characters of cs that take two UTF-16 code units
utf16_unit_offset(cs) == Cardinality({i \in 1..Len(cs) : cs[i] = Wide})

position_from_utf16(ls, position) ==
    IF PyIndexOk(ls, position.line)
    THEN Position(position.line,
                  position.character
                  - utf16_unit_offset(PyPrefix(PyAt(ls, position.line),
                                               position.character)))
    ELSE Position(Len(ls), 0)

----------------------------------------------------------------------------
(* BaseDocument *)

RECURSIVE position_at_offset_from(_, _, _, _)
\* the loop of position_at_offset, at line lidx (0-based) with pos counted
position_at_offset_from(ls, offset, lidx, pos) ==
    IF lidx >= Len(ls) THEN None
    ELSE LET line_len == Len(ls[lidx + 1]) IN
         IF pos + line_len > offset
         THEN Ok(Position(lidx, offset - pos))
         ELSE position_at_offset_from(ls, offset, lidx + 1, pos + line_len)

position_at_offset(ls, offset) == position_at_offset_from(ls, offset, 0, 0)

offset_at_position(ls, position) ==
    LET pos == position_from_utf16(ls, position) IN
    Ok(pos.character + SumLen(PyPrefix(ls, pos.line)))

RECURSIVE range_end_from(_, _, _, _)
\* the loop of range_at_offset, at line lidx with length left to walk
range_end_from(ls, start, lidx, length) ==
    IF lidx >= Len(ls)
    THEN Position(Len(ls) - 1, Len(ls[Len(ls)]) - 1)
    ELSE LET line_len == Len(ls[lidx + 1]) IN
         IF line_len > length
         THEN Position(lidx, length)
         ELSE range_end_from(ls, start, lidx + 1, length - line_len)

range_at_offset(ls, offset, length) ==
    LET start == position_at_offset(ls, offset) IN
    IF start.kind = "none" THEN None
    ELSE Ok(Range(start.val,
                  range_end_from(ls, start.val, start.val.line,
                                 start.val.character + length)))

\* pygls Document._apply_incremental_change, called by apply_change: the
\* text between the positions of change.range becomes change.text
RECURSIVE write_lines(_, _, _, _, _)
write_lines(ls, i, start, end, text) ==
    IF i >= Len(ls) THEN <<>>
    ELSE LET line == ls[i + 1] IN
         (IF i < start.line \/ i > end.line THEN line
          ELSE (IF i = start.line
                THEN PyPrefix(line, start.character) \o text ELSE <<>>)
               \o (IF i = end.line
                   THEN PySuffix(line, end.character) ELSE <<>>))
         \o write_lines(ls, i + 1, start, end, text)

apply_incremental_change(src, change) ==
    LET ls == lines(src)
        start == position_from_utf16(ls, change.range.start)
        end == position_from_utf16(ls, change.range.end)
    IN  IF start.line = Len(ls) THEN src \o change.text
        ELSE write_lines(ls, 0, start, end, change.text)

\* the test that ends the leftward scan of paragraph_at_offset at start_idx
para_start_found(src, start_idx) ==
    \/ \A i \in 1..(Min(3, start_idx + 1) - 1) : PyAt(src, start_idx - i) = NL
    \/ \A i \in 0..(Min(2, start_idx + 1) - 1) : PyAt(src, start_idx - i) = NL

RECURSIVE para_scan_left(_, _)
\* the first while loop of paragraph_at_offset
para_scan_left(src, start_idx) ==
    IF start_idx >= 0 /\ ~para_start_found(src, start_idx)
    THEN para_scan_left(src, start_idx - 1)
    ELSE start_idx

\* the test that ends the rightward scan of paragraph_at_offset at end_idx
para_end_found(src, start_idx, end_idx) ==
    \/ \A i \in 0..(Min(2, Len(src) - end_idx) - 1) : PyAt(src, end_idx + i) = NL
    \/ \A i \in 0..(Min(2, start_idx + 1) - 1) : PyAt(src, start_idx - i) = NL

RECURSIVE para_scan_right(_, _, _)
\* the inner while loop of paragraph_at_offset
para_scan_right(src, start_idx, end_idx) ==
    IF end_idx <= Len(src) - 1 /\ ~para_end_found(src, start_idx, end_idx)
    THEN para_scan_right(src, start_idx, end_idx + 1)
    ELSE end_idx

RECURSIVE para_extend(_, _, _, _)
\* the outer while loop of paragraph_at_offset
para_extend(src, start_idx, end_idx, min_length) ==
    LET e == para_scan_right(src, start_idx, end_idx) IN
    IF e < Len(src) - 1 /\ e - start_idx + 1 < min_length
    THEN para_extend(src, start_idx, e + 1, min_length)
    ELSE e

\* a plausible slip in paragraph_at_offset: the paragraph starts after the
\* character the leftward scan stopped at
paragraph_at_offset_late(src, offset, min_length) ==
    IF ~(offset >= 0) \/ ~(offset < Len(src)) THEN Raise("AssertionError")
    ELSE LET start_idx == para_scan_left(src, offset)
             end_idx == para_extend(src, start_idx, offset, min_length)
         IN  Ok(Interval(start_idx + 1, end_idx - start_idx))

paragraph_at_offset(src, offset, min_length) ==
    IF ~(offset >= 0) \/ ~(offset < Len(src)) THEN Raise("AssertionError")
    ELSE LET start_idx == para_scan_left(src, offset)
             end_idx == para_extend(src, start_idx, offset, min_length)
         IN  Ok(Interval(start_idx, end_idx - start_idx + 1))

\* position < other, as lsprotocol compares positions
PositionLess(p, q) ==
    p.line < q.line \/ (p.line = q.line /\ p.character < q.character)

\* paragraph_at_position(position)
paragraph_at_position(src, position) ==
    LET offset == offset_at_position(lines(src), position) IN
    IF offset.kind = "none" THEN None
    ELSE paragraph_at_offset(src, offset.val, 0)

RECURSIVE paragraphs_sweep(_, _, _, _)
\* the while loop of paragraphs_at_range at position, with res collected
paragraphs_sweep(src, position, end, res) ==
    IF ~PositionLess(position, end) THEN Ok(res)
    ELSE LET paragraph == paragraph_at_position(src, position) IN
         IF paragraph.kind = "raise" THEN paragraph
         ELSE LET text == splitlines(PySlice(src, paragraph.val.start,
                              paragraph.val.start + paragraph.val.length))
              IN  paragraphs_sweep(src,
                                   Position(position.line + Len(text), 0),
                                   end, Append(res, paragraph.val))

\* paragraphs_at_range(position_range), with cleaned=False
paragraphs_at_range(src, position_range) ==
    paragraphs_sweep(src, position_range.start, position_range.end, <<>>)

----------------------------------------------------------------------------
(* LaTeX documents and their parse.  A document of the model is a sequence *)
(* of tokens: \section{title}, a word, a space or a line break.  The parse *)
(* (tree-sitter with the query of LatexDocument._build_query) captures, in *)
(* document order, the curly group of every section title as               *)
(* newline_before_after and, as content, every word of a title and every   *)
(* word of the text of a section.                                          *)

Word(t) == [kind |-> "word", text |-> t]
Space == [kind |-> "space", text |-> <<" ">>]
Newline == [kind |-> "newline", text |-> <<NL>>]
Section(t) == [kind |-> "section", text |-> t]

SectionCommand == <<"\\", "s", "e", "c", "t", "i", "o", "n">>

\* the raw text of one token
RenderToken(tok) ==
    IF tok.kind = "section"
    THEN SectionCommand \o <<"{">> \o tok.text \o <<"}">>
    ELSE tok.text

RECURSIVE Render(_)
\* the raw text of a document
Render(toks) ==
    IF toks = <<>> THEN <<>>
    ELSE RenderToken(Head(toks)) \o Render(Tail(toks))

NODE_CONTENT == "content"
NODE_NEWLINE_BEFORE_AFTER == "newline_before_after"

Capture(name, text, start_point, end_point) ==
    [name |-> name, text |-> text,
     start_point |-> start_point, end_point |-> end_point]

RECURSIVE CapturesFrom(_, _, _, _)
\* the captures of the tokens toks that start at (row, col); in_section
\* says that a section has been opened before them
CapturesFrom(toks, row, col, in_section) ==
    IF toks = <<>> THEN <<>>
    ELSE
    LET tok == Head(toks)
        n == Len(tok.text)
    IN
    CASE tok.kind = "section" ->
           <<Capture(NODE_NEWLINE_BEFORE_AFTER,
                     <<"{">> \o tok.text \o <<"}">>,
                     <<row, col + Len(SectionCommand)>>,
                     <<row, col + Len(SectionCommand) + n + 2>>),
             Capture(NODE_CONTENT, tok.text,
                     <<row, col + Len(SectionCommand) + 1>>,
                     <<row, col + Len(SectionCommand) + 1 + n>>)>>
           \o CapturesFrom(Tail(toks), row,
                           col + Len(SectionCommand) + n + 2, TRUE)
      [] tok.kind = "word" ->
           (IF in_section
            THEN <<Capture(NODE_CONTENT, tok.text,
                           <<row, col>>, <<row, col + n>>)>>
            ELSE <<>>)
           \o CapturesFrom(Tail(toks), row, col + n, in_section)
      [] tok.kind = "space" ->
           CapturesFrom(Tail(toks), row, col + 1, in_section)
      [] tok.kind = "newline" ->
           CapturesFrom(Tail(toks), row + 1, 0, in_section)

\* self._query.captures(tree.root_node)
Captures(toks) == CapturesFrom(toks, 0, 0, FALSE)

RECURSIVE split_lines(_)
\* str.split('\n'): the lines of s without their line breaks
split_lines(s) ==
    LET b == FirstBreak(s, 1) IN
    IF b = 0 THEN <<s>>
    ELSE <<SubSeq(s, 1, b - 1)>> \o split_lines(SubSeq(s, b + 1, Len(s)))

----------------------------------------------------------------------------
(* TextNode and LatexDocument._iterate_text_nodes *)

TextNode(text, start_point, end_point) ==
    [text |-> text, start_point |-> start_point, end_point |-> end_point]

\* TextNode.space
space_node(start_point, end_point) == TextNode(<<" ">>, start_point, end_point)

\* TextNode.new_line
new_line_node(start_point, end_point) == TextNode(<<NL>>, start_point, end_point)

\* Python's order on points, p > q
PointAfter(p, q) == p[1] > q[1] \/ (p[1] = q[1] /\ p[2] > q[2])

\* _get_new_lines(num, location)
get_new_lines(num, location) ==
    [k \in 1..num |->
        LET i == k - 1 IN
        new_line_node(<<location[1] + i, IF i = 0 THEN location[2] + 1 ELSE 0>>,
                      <<location[1] + i, IF i = 0 THEN location[2] + 2 ELSE 1>>)]

\* _needs_space_before(node, lines, last_sent)
needs_space_before(node, ls, last_sent) ==
    IF last_sent.kind = "none" THEN FALSE
    ELSE IF node.start_point[1] = last_sent.val.end_point[1]
    THEN \E c \in DOMAIN PySlice(PyAt(ls, node.start_point[1]),
                                 last_sent.val.end_point[2],
                                 node.start_point[2]) :
            PySlice(PyAt(ls, node.start_point[1]),
                    last_sent.val.end_point[2], node.start_point[2])[c] = " "
    ELSE last_sent.val.text # <<NL>>

\* the state of the generator: the fragments yielded so far, last_sent and
\* new_lines_after
EmitStart == [out |-> <<>>, last_sent |-> None, new_lines_after |-> <<>>]

\* yield the two new lines of location and make the second last_sent
YieldNewLines(st, location) ==
    LET nls == get_new_lines(2, location) IN
    [st EXCEPT !.out = @ \o nls, !.last_sent = Ok(nls[2])]

RECURSIVE flush_new_lines(_, _)
\* the "newlines after previous elements" loop of the content branch
flush_new_lines(st, node) ==
    IF Len(st.new_lines_after) > 0
    THEN IF PointAfter(node.start_point, st.new_lines_after[1])
         THEN LET st1 == IF st.last_sent.kind = "ok"
                         THEN YieldNewLines(st, st.last_sent.val.end_point)
                         ELSE st
              IN  flush_new_lines(
                      [st1 EXCEPT !.new_lines_after = Tail(@)], node)
         ELSE st
    ELSE st

\* the "linebreaks in source" test of the content branch
blank_line_between(st, node, ls) ==
    /\ st.last_sent.kind = "ok"
    /\ node.start_point[1] - st.last_sent.val.end_point[1] > 1
    /\ LET between == PySlice(ls, st.last_sent.val.end_point[1] + 1,
                              node.start_point[1])
       IN  \E k \in DOMAIN between : between[k] = <<>>

\* the space yielded before node
space_before(st, node) ==
    LET sp == node.start_point
        le == st.last_sent.val.end_point
    IN  IF sp[2] > 0
        THEN space_node(<<sp[1], sp[2] - 1>>, sp)
        ELSE space_node(<<le[1], le[2] + 1>>, <<le[1], le[2] + 2>>)

\* the branch of a content capture
content_step(st, node, ls) ==
    LET st1 == flush_new_lines(st, node)
        st2 == IF blank_line_between(st1, node, ls)
               THEN YieldNewLines(st1, st1.last_sent.val.end_point)
               ELSE st1
        st3 == IF needs_space_before(node, ls, st2.last_sent)
               THEN [st2 EXCEPT !.out = Append(@, space_before(st2, node))]
               ELSE st2
        sent == TextNode(node.text, node.start_point, node.end_point)
    IN  [st3 EXCEPT !.out = Append(@, sent), !.last_sent = Ok(sent)]

\* the branch of a newline_before_after capture
newline_step(st, node) ==
    LET st1 == [st EXCEPT !.new_lines_after = Append(@, node.end_point)] IN
    IF st1.last_sent.kind = "ok"
    THEN YieldNewLines(st1, node.end_point)
    ELSE st1

RECURSIVE unclosed_new_lines(_)
\* the "unclosed newlines" loop after the captures
unclosed_new_lines(st) ==
    IF Len(st.new_lines_after) > 0
    THEN unclosed_new_lines(
             [st EXCEPT
                !.out = IF st.last_sent.kind = "ok"
                        THEN @ \o get_new_lines(2, st.last_sent.val.end_point)
                        ELSE @,
                !.new_lines_after = Tail(@)])
    ELSE st

RECURSIVE iterate_captures(_, _, _)
\* the for loop of _iterate_text_nodes over the captures
iterate_captures(st, captures, ls) ==
    IF captures = <<>> THEN st
    ELSE LET node == Head(captures) IN
         iterate_captures(
             IF node.name = NODE_CONTENT THEN content_step(st, node, ls)
             ELSE IF node.name = NODE_NEWLINE_BEFORE_AFTER
                  THEN newline_step(st, node)
             ELSE st,
             Tail(captures), ls)

\* the fragments _iterate_text_nodes yields for the captures of a tree whose
\* text is src
iterate_text_nodes(captures, src) ==
    unclosed_new_lines(
        iterate_captures(EmitStart, captures, split_lines(src))).out

----------------------------------------------------------------------------
(* TreeSitterDocument *)

\* a plausible slip in _clean_source: the end offset of a fragment is taken
\* one past its last character
index_fragment_end_exclusive(lst, node, offset) ==
    add_interval_values(lst, offset, offset + Len(node.text),
                        node.start_point[1], node.start_point[2],
                        node.end_point[1], node.end_point[2],
                        node.text)

\* the body of the for loop of _clean_source: the fragment node is appended
\* to lst at the cleaned offset
index_fragment(lst, node, offset) ==
    LET node_len == Len(node.text) IN
    add_interval_values(lst, offset, offset + node_len - 1,
                        node.start_point[1], node.start_point[2],
                        node.end_point[1], node.end_point[2],
                        node.text)

RECURSIVE index_fragments(_, _, _)
\* the for loop of _clean_source
index_fragments(lst, nodes, offset) ==
    IF nodes = <<>> THEN lst
    ELSE index_fragments(index_fragment(lst, Head(nodes), offset),
                         Tail(nodes), offset + Len(Head(nodes).text))

RECURSIVE join(_)
\* ''.join(values)
join(values) == IF values = <<>> THEN <<>> ELSE Head(values) \o join(Tail(values))

\* _clean_source: the interval list and the cleaned text of the fragments
clean_source(nodes) ==
    LET lst == index_fragments(EmptyIntervalList, nodes, 0) IN
    [text_intervals |-> lst, cleaned_source |-> join(lst.value)]

\* a plausible slip in CleanableDocument.apply_change: the cached cleaned
\* text is kept
cache_kept(cached) == cached

\* CleanableDocument.apply_change: what it leaves in _cleaned_source
cache_after_change(cached) == None

\* TreeSitterDocument.position_at_offset(offset, cleaned=True), once the
\* cleaning has run
ts_position_at_offset(lst, offset) ==
    LET item == get_interval_at_offset(lst, offset) IN
    IF item.kind = "none" THEN Raise("AttributeError")
    ELSE IF ~(offset >= item.val.offset_interval.start)
         THEN Raise("AssertionError")
    ELSE Ok(Position(item.val.position_range.start.line,
                     item.val.position_range.start.character
                     + (offset - item.val.offset_interval.start)))

\* TreeSitterDocument.range_at_offset(offset, length, cleaned=True)
ts_range_at_offset(lst, offset, length) ==
    LET start == ts_position_at_offset(lst, offset)
        item == get_interval_at_offset(lst, offset + length - 1)
    IN
    IF start.kind = "raise" THEN start
    ELSE IF item.kind = "none" THEN Raise("AttributeError")
    ELSE LET item_end == item.val.offset_interval.start
                         + item.val.offset_interval.length
         IN  IF ~(offset + length <= item_end) THEN Raise("AssertionError")
             ELSE Ok(Range(start.val,
                           Position(item.val.position_range.end.line,
                                    item.val.position_range.end.character
                                    - (item_end - (offset + length)))))

\* TreeSitterDocument.offset_at_position(position, cleaned=True)
ts_offset_at_position(lst, position) ==
    LET item == get_interval_at_position(lst, position, TRUE) IN
    IF item.kind # "ok" THEN item
    ELSE IF item.val.position_range.start.line # position.line
         THEN Raise("AssertionError")
    ELSE IF ~(item.val.position_range.start.character <= position.character)
         THEN Raise("AssertionError")
    ELSE Ok(item.val.offset_interval.start
            + (position.character
               - item.val.position_range.start.character))

----------------------------------------------------------------------------
(* LanguageToolAnalyser *)

\* a match of the tool: a span of the text it checked
Match(offset, errorLength) == [offset |-> offset, errorLength |-> errorLength]

\* TreeSitterDocument.range_at_offset(offset, length) with cleaned left at
\* its default False: the lookup of BaseDocument on the raw text
doc_range_at_offset(src, offset, length) ==
    range_at_offset(lines(src), offset, length)

\* the ranges of the diagnostics did_open publishes for the matches of the
\* tool on doc.cleaned_source
did_open_diagnostics(src, matches) ==
    [k \in 1..Len(matches) |->
        doc_range_at_offset(src, matches[k].offset, matches[k].errorLength)]

----------------------------------------------------------------------------
(* ChangeTracker, with cleaned=False *)

Run(length, changed) == [length |-> length, changed |-> changed]

RECURSIVE get_offset_idx_from(_, _, _, _)
\* the while loop of _get_offset_idx at run idx (0-based) with pos counted;
\* reading a run past the last one raises IndexError
get_offset_idx_from(runs, offset, idx, pos) ==
    IF ~(pos <= offset) THEN Ok([idx |-> idx, pos |-> pos])
    ELSE IF idx >= Len(runs) THEN Raise("IndexError")
    ELSE IF pos + runs[idx + 1].length <= offset
         THEN get_offset_idx_from(runs, offset, idx + 1,
                                  pos + runs[idx + 1].length)
    ELSE Ok([idx |-> idx, pos |-> pos])

\* _get_offset_idx(offset)
get_offset_idx(runs, offset) == get_offset_idx_from(runs, offset, 0, 0)

\* _replace_at(idx, tuples)
replace_at(runs, idx, tuples) ==
    SubSeq(runs, 1, idx) \o tuples \o SubSeq(runs, idx + 2, Len(runs))

\* a plausible slip in update_document: the run after the change keeps the
\* characters the change replaced
tail_run_whole(item, start_in_item, range_length) ==
    Run(item.length - start_in_item, item.changed)

\* the run update_document leaves after the change, of the run it splits
tail_run(item, start_in_item, range_length) ==
    Run(item.length - start_in_item - range_length, item.changed)

\* update_document(change) for a change with a range, on the ledger runs
\* of a document whose text is src: the new ledger, or the error raised
update_runs(runs, src, change) ==
    LET ls == lines(src)
        start_offset == offset_at_position(ls, change.range.start).val
        end_offset == offset_at_position(ls, change.range.end).val
        found == get_offset_idx(runs, start_offset)
    IN
    IF found.kind = "raise" THEN found
    ELSE
    LET item_idx == found.val.idx
        item_offset == found.val.pos
        change_length == Len(change.text)
        range_length == end_offset - start_offset
        start_in_item == start_offset - item_offset
        item == runs[item_idx + 1]
        effective_change_length ==
            Max(IF change_length >= range_length THEN change_length
                ELSE change_length - range_length,
                0 - item_offset)
        new_lst ==
            (IF start_in_item > 0
             THEN <<Run(start_in_item, item.changed)>> ELSE <<>>)
            \o <<Run(effective_change_length, TRUE)>>
            \o (IF end_offset < Len(src)
                THEN <<tail_run(item, start_in_item, range_length)>>
                ELSE <<>>)
    IN  Ok(replace_at(runs, item_idx, new_lst))

\* the tracker after update_document(change): its ledger and its
\* full_document_change flag, or the error raised.  A change without a
\* range is a TextDocumentContentChangeEvent_Type2.
update_document(runs, full, src, change) ==
    IF full THEN Ok([items |-> runs, full_document_change |-> TRUE])
    ELSE IF "range" \notin DOMAIN change
    THEN Ok([items |-> <<Run(-1, TRUE)>>, full_document_change |-> TRUE])
    ELSE LET updated == update_runs(runs, src, change) IN
         IF updated.kind = "raise" THEN updated
         ELSE Ok([items |-> updated.val, full_document_change |-> FALSE])

RECURSIVE changes_from(_, _, _)
\* the for loop of get_changes over the runs left, with pos counted
changes_from(runs, pos, doc_length) ==
    IF runs = <<>> THEN <<>>
    ELSE LET item == Head(runs) IN
         (IF item.changed
          THEN IF item.length < 0
               THEN <<Interval(Max(0, pos + item.length),
                               Min(0 - item.length, doc_length - pos))>>
               ELSE <<Interval(Min(pos, doc_length - 1), item.length)>>
          ELSE <<>>)
         \o changes_from(Tail(runs), pos + item.length, doc_length)

\* a plausible slip in get_changes: the ledger is read after a full-document
\* change as well
get_changes_of_runs(runs, full, src) == changes_from(runs, 0, Len(src))

\* get_changes()
get_changes(runs, full, src) ==
    IF full THEN <<Interval(0, Len(src))>>
    ELSE changes_from(runs, 0, Len(src))

----------------------------------------------------------------------------
(* The raw-document lookups: a document is opened on any text and the      *)
(* lookups of BaseDocument are called on it.                               *)

NoCall == [op |-> "none"]

\* the raw texts a document is opened on
RawTexts == TextsUpTo(Chars, MaxLen) \cup {ScenarioText}

\* the offsets asked of a lookup: every offset of the text, one below and
\* two at or after its end
Offsets == -1..(Len(source) + 1)

\* the positions asked of a lookup: every line and column of the text, and
\* one line and one column past them
Positions ==
    {Position(l, c) : l \in 0..Len(lines(source)),
                      c \in 0..(Len(source) + 1)}

InitRaw ==
    /\ source \in RawTexts
    /\ ret = NoCall
    /\ intervals = EmptyIntervalList
    /\ latex = <<>>
    /\ cleaned_source = None
    /\ text_intervals = None
    /\ items = <<>>
    /\ full_document_change = FALSE
    /\ readers = <<>>
    /\ lock = 0
    /\ cleanings = 0
    /\ event = "none"
    /\ tasks = <<>>
    /\ messages = {}

PositionAtOffset(offset) ==
    /\ ret = NoCall
    /\ ret' = [op |-> "position_at_offset", cleaned |-> FALSE,
               offset |-> offset,
               res |-> position_at_offset(lines(source), offset)]
    /\ UNCHANGED <<source, intervals, latex, cleaned_source, text_intervals, trackerVars, readerVars, handlerVars>>

\* offset_at_position on a position a client sends
OffsetAtPosition(position) ==
    /\ ret = NoCall
    /\ ret' = [op |-> "offset_at_position", cleaned |-> FALSE,
               position |-> position, of_offset |-> None,
               res |-> offset_at_position(lines(source), position)]
    /\ UNCHANGED <<source, intervals, latex, cleaned_source, text_intervals, trackerVars, readerVars, handlerVars>>

\* offset_at_position on the position the last position_at_offset returned
OffsetAtReturnedPosition ==
    /\ ret.op = "position_at_offset"
    /\ ret.res.kind = "ok"
    /\ ret' = [op |-> "offset_at_position", cleaned |-> FALSE,
               position |-> ret.res.val, of_offset |-> Ok(ret.offset),
               res |-> offset_at_position(lines(source), ret.res.val)]
    /\ UNCHANGED <<source, intervals, latex, cleaned_source, text_intervals, trackerVars, readerVars, handlerVars>>

RangeAtOffset(offset, length) ==
    /\ ret = NoCall
    /\ ret' = [op |-> "range_at_offset", cleaned |-> FALSE,
               offset |-> offset, length |-> length,
               res |-> range_at_offset(lines(source), offset, length)]
    /\ UNCHANGED <<source, intervals, latex, cleaned_source, text_intervals, trackerVars, readerVars, handlerVars>>

ParagraphAtOffset(offset, min_length) ==
    /\ ret = NoCall
    /\ ret' = [op |-> "paragraph_at_offset", offset |-> offset,
               min_length |-> min_length, before |-> None,
               res |-> paragraph_at_offset(source, offset, min_length)]
    /\ UNCHANGED <<source, intervals, latex, cleaned_source, text_intervals, trackerVars, readerVars, handlerVars>>

\* the same paragraph_at_offset call made again on the unchanged text
ParagraphAtOffsetAgain ==
    /\ ret.op = "paragraph_at_offset"
    /\ ret.before.kind = "none"
    /\ ret' = [ret EXCEPT
                 !.before = ret.res,
                 !.res = paragraph_at_offset(source, ret.offset,
                                             ret.min_length)]
    /\ UNCHANGED <<source, intervals, latex, cleaned_source, text_intervals, trackerVars, readerVars, handlerVars>>

\* the caller takes the result
Return ==
    /\ ret # NoCall
    /\ ret' = NoCall
    /\ UNCHANGED <<source, intervals, latex, cleaned_source, text_intervals, trackerVars, readerVars, handlerVars>>

NextRaw ==
    \/ \E o \in Offsets : PositionAtOffset(o)
    \/ \E p \in Positions : OffsetAtPosition(p)
    \/ OffsetAtReturnedPosition
    \/ \E o \in Offsets, n \in 0..MaxSpan : RangeAtOffset(o, n)
    \/ \E o \in Offsets, m \in 0..MaxSpan : ParagraphAtOffset(o, m)
    \/ ParagraphAtOffsetAgain
    \/ Return

SpecRaw == InitRaw /\ [][NextRaw]_vars

----------------------------------------------------------------------------
(* Claims on the raw-document lookups *)

\* C1: for every raw text and every offset o with 0 <= o < len(text),
\* offset_at_position(position_at_offset(o)) returns o.
C1_RawRoundTrip ==
    (/\ ret.op = "offset_at_position"
     /\ ~ret.cleaned
     /\ ret.of_offset.kind = "ok"
     /\ 0 <= ret.of_offset.val
     /\ ret.of_offset.val < Len(source))
    => (ret.res.kind = "ok" /\ ret.res.val = ret.of_offset.val)

\* a position lies outside the text: its line is no line of the text, or
\* its column lies past the end of its line
OutsideText(position) ==
    \/ position.line < 0
    \/ position.line >= Len(lines(source))
    \/ position.character < 0
    \/ position.character > Len(lines(source)[position.line + 1])

\* the text a lookup was made on
LookedUpText ==
    IF ret.cleaned THEN cleaned_source.val ELSE source

\* C6: every coordinate lookup given an out-of-range argument returns None:
\* position_at_offset and range_at_offset for an offset below 0 or at or
\* after the end of the raw or cleaned text, offset_at_position for a
\* position whose line or character lies outside the text.
C6_OutOfRangeIsNone ==
    /\ (/\ ret.op \in {"position_at_offset", "range_at_offset"}
        /\ (ret.offset < 0 \/ ret.offset >= Len(LookedUpText)))
       => ret.res.kind = "none"
    /\ (/\ ret.op = "offset_at_position"
        /\ OutsideText(ret.position))
       => ret.res.kind = "none"

\* C9: for every text and every offset o with 0 <= o < len(text),
\* paragraph_at_offset(o) returns an Interval(start, length) with
\* 0 <= start <= o < start + length, and the same call made again on the
\* unchanged text returns the same interval.
C9_ParagraphContainsOffset ==
    (/\ ret.op = "paragraph_at_offset"
     /\ 0 <= ret.offset
     /\ ret.offset < Len(source))
    => /\ ret.res.kind = "ok"
       /\ 0 <= ret.res.val.start
       /\ ret.res.val.start <= ret.offset
       /\ ret.offset < ret.res.val.start + ret.res.val.length
       /\ ret.before.kind = "ok" => ret.res = ret.before

\* a paragraph_at_offset call was repeated on an offset that is not the
\* first of its paragraph, in a text with a blank line
C9_Witness ==
    /\ ret.op = "paragraph_at_offset"
    /\ ret.before.kind = "ok"
    /\ ret.res.kind = "ok"
    /\ ret.res.val.start < ret.offset
    /\ \E i \in 1..(Len(source) - 1) : source[i] = NL /\ source[i + 1] = NL

\* a text made of paragraphs separated by a blank line: it starts and ends
\* with a paragraph, has a blank line, and no more than two line breaks
\* follow one another
ParagraphsText(src) ==
    /\ src # <<>>
    /\ src[1] # NL
    /\ src[Len(src)] # NL
    /\ \E i \in 1..(Len(src) - 1) : src[i] = NL /\ src[i + 1] = NL
    /\ \A i \in 1..(Len(src) - 2) :
          ~(src[i] = NL /\ src[i + 1] = NL /\ src[i + 2] = NL)

\* the character at offset o (0-based) belongs to a paragraph, not to the
\* blank line between two
InsideParagraph(src, o) ==
    /\ 0 <= o
    /\ o < Len(src)
    /\ ~(/\ src[o + 1] = NL
         /\ \/ (o >= 1 /\ src[o] = NL)
            \/ (o + 2 <= Len(src) /\ src[o + 2] = NL))

\* the offset of the first character of the paragraph holding offset o
FirstOfParagraph(src, o) ==
    CHOOSE f \in 0..o :
        /\ f = 0 \/ (f >= 2 /\ src[f] = NL /\ src[f - 1] = NL)
        /\ \A g \in (f + 1)..o : ~(src[g] = NL /\ src[g - 1] = NL)

\* the offset of the last character of the paragraph holding offset o
LastOfParagraph(src, o) ==
    CHOOSE l \in o..(Len(src) - 1) :
        /\ l = Len(src) - 1 \/ (src[l + 2] = NL /\ src[l + 3] = NL)
        /\ \A g \in o..(l - 1) : ~(src[g + 2] = NL /\ src[g + 3] = NL)

\* the interval C10 states for the paragraph holding offset o: from its
\* first to its last character, and the line break ending it when a blank
\* line follows
StatedParagraph(src, o) ==
    LET f == FirstOfParagraph(src, o)
        l == LastOfParagraph(src, o)
    IN  Interval(f, l - f + 1 + (IF l < Len(src) - 1 THEN 1 ELSE 0))

\* C10: in a text made of paragraphs separated by a blank line,
\* paragraph_at_offset(o, min_length=0) for o inside a paragraph returns the
\* interval from the paragraph's first to its last character, plus the line
\* break that ends it when a blank line follows.
C10_ParagraphInterval ==
    (/\ ret.op = "paragraph_at_offset"
     /\ ret.min_length = 0
     /\ ParagraphsText(source)
     /\ InsideParagraph(source, ret.offset))
    => (ret.res.kind = "ok"
        /\ ret.res.val = StatedParagraph(source, ret.offset))

----------------------------------------------------------------------------
(* A stand-alone interval list: entries are appended in ascending order of *)
(* offset and of position, as the cleaning pipeline appends them, leaving  *)
(* gaps or not, and the list is queried.                                   *)

\* p comes before q in the text
PositionBefore(p, q) ==
    \/ p.line < q.line
    \/ (p.line = q.line /\ p.character < q.character)

\* the entries lie on two lines
GridPositions == {Position(l, c) : l \in {0, 1}, c \in 0..MaxChar}

InitIndex ==
    /\ source = <<>>
    /\ ret = NoCall
    /\ intervals = EmptyIntervalList
    /\ latex = <<>>
    /\ cleaned_source = None
    /\ text_intervals = None
    /\ items = <<>>
    /\ full_document_change = FALSE
    /\ readers = <<>>
    /\ lock = 0
    /\ cleanings = 0
    /\ event = "none"
    /\ tasks = <<>>
    /\ messages = {}

\* add_interval_values with an entry that lies after the entries appended
\* so far
AddIntervalValues(offset_start, offset_end, start, end, value) ==
    /\ ret = NoCall
    /\ IntervalCount(intervals) < MaxEntries
    /\ offset_start <= offset_end
    /\ PositionBefore(start, end)
    /\ IntervalCount(intervals) > 0 =>
         LET last == get_interval(intervals, IntervalCount(intervals) - 1) IN
         /\ last.offset_interval.start + last.offset_interval.length
              <= offset_start
         /\ ~PositionBefore(start, last.position_range.end)
    /\ intervals' = add_interval_values(intervals, offset_start, offset_end,
                                        start.line, start.character,
                                        end.line, end.character, value)
    /\ UNCHANGED <<source, ret, latex, cleaned_source, text_intervals, trackerVars, readerVars, handlerVars>>

GetIdxAtOffset(offset) ==
    /\ ret = NoCall
    /\ ret' = [op |-> "get_idx_at_offset", offset |-> offset,
               res |-> get_idx_at_offset(intervals, offset)]
    /\ UNCHANGED <<source, intervals, latex, cleaned_source, text_intervals, trackerVars, readerVars, handlerVars>>

GetIdxAtPosition(position, strict) ==
    /\ ret = NoCall
    /\ ret' = [op |-> "get_idx_at_position", position |-> position,
               strict |-> strict,
               res |-> get_idx_at_position(intervals, position, strict)]
    /\ UNCHANGED <<source, intervals, latex, cleaned_source, text_intervals, trackerVars, readerVars, handlerVars>>

NextIndex ==
    \/ \E os \in 0..MaxOffset, oe \in 0..MaxOffset,
          ps \in GridPositions, pe \in GridPositions, v \in {"x"} :
          AddIntervalValues(os, oe, ps, pe, v)
    \/ \E o \in -1..(MaxOffset + 1) : GetIdxAtOffset(o)
    \/ \E l \in {0, 1, 2}, c \in 0..(MaxChar + 1), strict \in BOOLEAN :
          GetIdxAtPosition(Position(l, c), strict)
    \/ Return

SpecIndex == InitIndex /\ [][NextIndex]_vars

----------------------------------------------------------------------------
(* A LaTeX document (TreeSitterDocument) and its cleaned lookups: the      *)
(* document is opened on any text of the family and the lookups are called *)
(* with cleaned=True.  Each lookup first runs _clean_source when           *)
(* _cleaned_source is None.                                                *)

\* the tokens a document is made of
Tokens == {Section(<<"t">>), Word(<<"a", "b">>), Space, Newline}

\* two words never touch: they would be one word
ValidLatex(ts) ==
    \A i \in 1..(Len(ts) - 1) : ~(ts[i].kind = "word" /\ ts[i + 1].kind = "word")

\* the documents of at most n tokens after an opening \section
LatexDocs(n) ==
    {<<Section(<<"t">>)>> \o rest : rest \in
        {r \in UNION {[1..k -> Tokens] : k \in 0..n} : ValidLatex(r)}}

\* tree = self._parser.parse(...); self._iterate_text_nodes(tree)
Fragments(doc) == iterate_text_nodes(Captures(doc), Render(doc))

\* the document after _clean_source has run when the cache is empty
Cleaned ==
    IF cleaned_source.kind = "none"
    THEN LET c == clean_source(Fragments(latex)) IN
         [cleaned_source |-> Ok(c.cleaned_source),
          text_intervals |-> Ok(c.text_intervals)]
    ELSE [cleaned_source |-> cleaned_source, text_intervals |-> text_intervals]

EnsureCleaned ==
    /\ cleaned_source' = Cleaned.cleaned_source
    /\ text_intervals' = Cleaned.text_intervals

\* the markup of spec scenario 2: "\section{Intro}\nSome text."
ScenarioLatex ==
    <<Section(<<"I", "n", "t", "r", "o">>), Newline,
      Word(<<"S", "o", "m", "e">>), Space, Word(<<"t", "e", "x", "t", ".">>)>>

InitClean ==
    /\ latex \in LatexDocs(MaxToks) \cup {ScenarioLatex}
    /\ source = Render(latex)
    /\ ret = NoCall
    /\ intervals = EmptyIntervalList
    /\ cleaned_source = None
    /\ text_intervals = None
    /\ items = <<>>
    /\ full_document_change = FALSE
    /\ readers = <<>>
    /\ lock = 0
    /\ cleanings = 0
    /\ event = "none"
    /\ tasks = <<>>
    /\ messages = {}

\* the property cleaned_source
CleanedSource ==
    /\ ret = NoCall
    /\ EnsureCleaned
    /\ ret' = [op |-> "cleaned_source", res |-> Cleaned.cleaned_source]
    /\ UNCHANGED <<source, intervals, latex, trackerVars, readerVars, handlerVars>>

TsPositionAtOffset(offset) ==
    /\ ret = NoCall
    /\ EnsureCleaned
    /\ ret' = [op |-> "position_at_offset", cleaned |-> TRUE,
               offset |-> offset,
               res |-> ts_position_at_offset(Cleaned.text_intervals.val,
                                             offset)]
    /\ UNCHANGED <<source, intervals, latex, trackerVars, readerVars, handlerVars>>

TsOffsetAtPosition(position) ==
    /\ ret = NoCall
    /\ EnsureCleaned
    /\ ret' = [op |-> "offset_at_position", cleaned |-> TRUE,
               position |-> position, of_offset |-> None,
               res |-> ts_offset_at_position(Cleaned.text_intervals.val,
                                             position)]
    /\ UNCHANGED <<source, intervals, latex, trackerVars, readerVars, handlerVars>>

\* offset_at_position(cleaned=True) on the position the last
\* position_at_offset(cleaned=True) returned
TsOffsetAtReturnedPosition ==
    /\ ret.op = "position_at_offset"
    /\ ret.res.kind = "ok"
    /\ EnsureCleaned
    /\ ret' = [op |-> "offset_at_position", cleaned |-> TRUE,
               position |-> ret.res.val, of_offset |-> Ok(ret.offset),
               res |-> ts_offset_at_position(Cleaned.text_intervals.val,
                                             ret.res.val)]
    /\ UNCHANGED <<source, intervals, latex, trackerVars, readerVars, handlerVars>>

TsRangeAtOffset(offset, length) ==
    /\ ret = NoCall
    /\ EnsureCleaned
    /\ ret' = [op |-> "range_at_offset", cleaned |-> TRUE,
               offset |-> offset, length |-> length,
               res |-> ts_range_at_offset(Cleaned.text_intervals.val,
                                          offset, length)]
    /\ UNCHANGED <<source, intervals, latex, trackerVars, readerVars, handlerVars>>

\* LanguageToolAnalyser.did_open, the tool finding one match at (offset,
\* length) in the cleaned text
DidOpen(offset, length) ==
    /\ ret = NoCall
    /\ EnsureCleaned
    /\ offset + length <= Len(Cleaned.cleaned_source.val)
    /\ ret' = [op |-> "did_open", matches |-> <<Match(offset, length)>>,
               res |-> did_open_diagnostics(source,
                                            <<Match(offset, length)>>)]
    /\ UNCHANGED <<source, intervals, latex, trackerVars, readerVars, handlerVars>>

\* the cleaned offsets asked of a lookup: every offset of the cleaned text,
\* one below and two at or after its end
CleanedOffsets == -1..(Len(Cleaned.cleaned_source.val) + 1)

\* the positions asked of a cleaned lookup: the lines of the raw text and
\* one past them, the columns of the longest line and one past them
RawPositions ==
    LET ls == lines(source) IN
    {Position(l, c) : l \in 0..Len(ls),
                      c \in 0..(Len(source) + 1)}

NextClean ==
    \/ CleanedSource
    \/ \E o \in CleanedOffsets : TsPositionAtOffset(o)
    \/ \E p \in RawPositions : TsOffsetAtPosition(p)
    \/ TsOffsetAtReturnedPosition
    \/ \E o \in CleanedOffsets, n \in 1..MaxSpan : TsRangeAtOffset(o, n)
    \/ \E o \in 0..Len(Cleaned.cleaned_source.val), n \in 1..MaxSpan :
          DidOpen(o, n)
    \/ Return

SpecClean == InitClean /\ [][NextClean]_vars

----------------------------------------------------------------------------
(* A LaTeX document that is edited and read: apply_change events and reads *)
(* of the cleaned text come in any order, one after the other.             *)

RECURSIVE CountBreaks(_)
CountBreaks(s) ==
    IF s = <<>> THEN 0
    ELSE (IF Head(s) = NL THEN 1 ELSE 0) + CountBreaks(Tail(s))

RECURSIVE Utf16Units(_)
\* the UTF-16 code units of s
Utf16Units(s) ==
    IF s = <<>> THEN 0
    ELSE (IF Head(s) = Wide THEN 2 ELSE 1) + Utf16Units(Tail(s))

\* the position a client sends for the offset k of the text src
ClientPosition(src, k) ==
    LET before == SubSeq(src, 1, k)
        ls == split_lines(before)
    IN  Position(CountBreaks(before), Utf16Units(ls[Len(ls)]))

\* the change event that replaces the tokens i+1..j of doc by the tokens new
TokenChange(doc, i, j, new) ==
    LET src == Render(doc) IN
    [range |-> Range(ClientPosition(src, Len(Render(SubSeq(doc, 1, i)))),
                     ClientPosition(src, Len(Render(SubSeq(doc, 1, j))))),
     text |-> Render(new)]

InitCache ==
    /\ latex \in LatexDocs(MaxEditToks)
    /\ source = Render(latex)
    /\ ret = NoCall
    /\ intervals = EmptyIntervalList
    /\ cleaned_source = None
    /\ text_intervals = None
    /\ items = <<>>
    /\ full_document_change = FALSE
    /\ readers = <<>>
    /\ lock = 0
    /\ cleanings = 0
    /\ event = "none"
    /\ tasks = <<>>
    /\ messages = {}

\* CleanableDocument.apply_change with an incremental change
ApplyChange(i, j, new) ==
    LET after == SubSeq(latex, 1, i) \o new \o SubSeq(latex, j + 1, Len(latex))
    IN
    /\ ret = NoCall
    /\ i <= j
    /\ after \in LatexDocs(MaxEditToks)
    /\ source' = apply_incremental_change(source, TokenChange(latex, i, j, new))
    /\ latex' = after
    /\ cleaned_source' = cache_after_change(cleaned_source)
    /\ ret' = [op |-> "apply_change"]
    /\ UNCHANGED <<intervals, text_intervals, trackerVars, readerVars, handlerVars>>

\* CleanableDocument.apply_change with a full-document change
ApplyFullChange(new) ==
    /\ ret = NoCall
    /\ source' = Render(new)
    /\ latex' = new
    /\ cleaned_source' = cache_after_change(cleaned_source)
    /\ ret' = [op |-> "apply_change"]
    /\ UNCHANGED <<intervals, text_intervals, trackerVars, readerVars, handlerVars>>

\* a read of the property cleaned_source; the read tells whether it ran the
\* cleaning over an index left by an earlier cleaning
ReadCleanedSource ==
    /\ ret = NoCall
    /\ EnsureCleaned
    /\ ret' = [op |-> "cleaned_source", res |-> Cleaned.cleaned_source,
               recleaned |-> cleaned_source.kind = "none"
                             /\ text_intervals.kind = "ok"]
    /\ UNCHANGED <<source, intervals, latex, trackerVars, readerVars, handlerVars>>

NextCache ==
    \/ \E i \in 1..Len(latex), j \in 1..Len(latex),
          new \in UNION {[1..k -> Tokens] : k \in 0..1} :
          ApplyChange(i, j, new)
    \/ \E new \in LatexDocs(MaxEditToks) : ApplyFullChange(new)
    \/ ReadCleanedSource
    \/ \E o \in CleanedOffsets : TsPositionAtOffset(o)
    \/ Return

SpecCache == InitCache /\ [][NextCache]_vars

----------------------------------------------------------------------------
(* A tracked document: a ChangeTracker is made for a document, and every   *)
(* change event is given to the tracker (update_document) and then applied *)
(* to the document (TextLSPWorkspace.update_document).                     *)

TrackedChars == {"a", NL}

InitTracker ==
    /\ source \in TextsUpTo(TrackedChars, MaxTrackedLen)
    /\ ret = [op |-> "none", edits |-> 0]
    /\ intervals = EmptyIntervalList
    /\ latex = <<>>
    /\ cleaned_source = None
    /\ text_intervals = None
    /\ items = <<Run(Len(source), FALSE)>>
    /\ full_document_change = FALSE
    /\ readers = <<>>
    /\ lock = 0
    /\ cleanings = 0
    /\ event = "none"
    /\ tasks = <<>>
    /\ messages = {}

\* the change event that replaces the text between the offsets a and b
RangeChange(src, a, b, text) ==
    [range |-> Range(ClientPosition(src, a), ClientPosition(src, b)),
     text |-> text]

\* the texts a change with a range puts in: nothing, a character, a line
\* break, two characters
InsertedTexts == {<<>>, <<"a">>, <<NL>>, <<"a", "a">>}

\* the texts a full-document change replaces the document by
ReplacingTexts == {<<>>, <<"a", NL, "a">>}

\* a change event with a range: update_document, then apply_change
IncrementalChange(a, b, text) ==
    LET change == RangeChange(source, a, b, text)
        updated == update_document(items, full_document_change, source, change)
    IN
    /\ ret.edits < MaxEdits
    /\ a <= b
    /\ Len(source) - (b - a) + Len(text) <= MaxTrackedLen
    /\ IF updated.kind = "raise"
       THEN /\ ret' = [op |-> "update_document", edits |-> ret.edits + 1,
                       res |-> updated, a |-> a, b |-> b, text |-> text,
                       before |-> source, full |-> FALSE]
            /\ UNCHANGED <<source, items, full_document_change>>
       ELSE /\ items' = updated.val.items
            /\ full_document_change' = updated.val.full_document_change
            /\ source' = apply_incremental_change(source, change)
            /\ ret' = [op |-> "update_document", edits |-> ret.edits + 1,
                       res |-> None, a |-> a, b |-> b, text |-> text,
                       before |-> source, full |-> FALSE]
    /\ UNCHANGED <<intervals, latex, cleaned_source, text_intervals,
                   readerVars, handlerVars>>

\* a full-document change event: update_document, then apply_change
FullChange(text) ==
    LET updated == update_document(items, full_document_change, source,
                                   [text |-> text])
    IN
    /\ ret.edits < MaxEdits
    /\ items' = updated.val.items
    /\ full_document_change' = updated.val.full_document_change
    /\ source' = text
    /\ ret' = [op |-> "update_document", edits |-> ret.edits + 1,
               res |-> None, a |-> 0, b |-> Len(source), text |-> text,
               before |-> source, full |-> TRUE]
    /\ UNCHANGED <<intervals, latex, cleaned_source, text_intervals,
                   readerVars, handlerVars>>

\* get_changes(), called after an update_document
GetChanges ==
    /\ ret.op = "update_document"
    /\ ret' = [op |-> "get_changes", edits |-> ret.edits, after |-> ret,
               res |-> Ok(get_changes(items, full_document_change, source))]
    /\ UNCHANGED <<source, intervals, latex, cleaned_source, text_intervals,
                   trackerVars, readerVars, handlerVars>>

NextTracker ==
    \/ \E a \in 0..Len(source), b \in 0..Len(source), text \in InsertedTexts :
          IncrementalChange(a, b, text)
    \/ \E text \in ReplacingTexts : FullChange(text)
    \/ GetChanges

SpecTracker == InitTracker /\ [][NextTracker]_vars

----------------------------------------------------------------------------
(* The paragraphs of a range: a document is opened on a text of lines and  *)
(* blank lines and paragraphs_at_range is called on ranges inside it.      *)

\* a paragraph of three lines, a blank line and a paragraph of one line
ScenarioLines == <<"a", NL, "a", NL, "a", NL, NL, "a">>

InitRange ==
    /\ source \in TextsUpTo(TrackedChars, MaxParaLen) \cup {ScenarioLines}
    /\ ret = NoCall
    /\ intervals = EmptyIntervalList
    /\ latex = <<>>
    /\ cleaned_source = None
    /\ text_intervals = None
    /\ items = <<>>
    /\ full_document_change = FALSE
    /\ readers = <<>>
    /\ lock = 0
    /\ cleanings = 0
    /\ event = "none"
    /\ tasks = <<>>
    /\ messages = {}

\* paragraphs_at_range on the range between the offsets a and b
ParagraphsAtRange(a, b) ==
    LET position_range == Range(ClientPosition(source, a),
                                ClientPosition(source, b))
    IN
    /\ ret = NoCall
    /\ a <= b
    /\ ret' = [op |-> "paragraphs_at_range", cleaned |-> FALSE,
               range |-> position_range, first |-> a, last |-> b,
               res |-> paragraphs_at_range(source, position_range)]
    /\ UNCHANGED <<source, intervals, latex, cleaned_source, text_intervals,
                   trackerVars, readerVars, handlerVars>>

NextRange ==
    \/ \E a \in 0..(Len(source) - 1), b \in 0..Len(source) :
          ParagraphsAtRange(a, b)
    \/ Return

SpecRange == InitRange /\ [][NextRange]_vars

----------------------------------------------------------------------------
(* The workspace: a change event of the client is handed to                *)
(* TextLSPWorkspace.update_document.                                       *)

\* self.analyser_handler.update_document(doc, change): AnalyserHandler
\* defines no update_document, so the attribute lookup raises
handler_update_document(doc, change) == Raise("AttributeError")

\* TextLSPWorkspace.update_document(text_doc, change) on a document with
\* text src: the text the handler is called with, the text the document
\* holds afterwards, and the outcome of the call
workspace_update_document(src, change) ==
    LET notified == handler_update_document(src, change) IN
    IF notified.kind = "raise"
    THEN [handler_saw |-> src, source |-> src, res |-> notified]
    ELSE [handler_saw |-> src,
          source |-> apply_incremental_change(src, change),
          res |-> None]

InitWorkspace ==
    /\ source \in TextsUpTo(TrackedChars, MaxTrackedLen)
    /\ ret = NoCall
    /\ intervals = EmptyIntervalList
    /\ latex = <<>>
    /\ cleaned_source = None
    /\ text_intervals = None
    /\ items = <<>>
    /\ full_document_change = FALSE
    /\ readers = <<>>
    /\ lock = 0
    /\ cleanings = 0
    /\ event = "none"
    /\ tasks = <<>>
    /\ messages = {}

\* a change event that replaces the text between the offsets a and b
WorkspaceUpdateDocument(a, b, text) ==
    LET change == RangeChange(source, a, b, text)
        done == workspace_update_document(source, change)
    IN
    /\ ret = NoCall
    /\ a <= b
    /\ Len(source) - (b - a) + Len(text) <= MaxTrackedLen
    /\ source' = done.source
    /\ ret' = [op |-> "workspace_update_document", before |-> source,
               change |-> change, handler_saw |-> done.handler_saw,
               res |-> done.res]
    /\ UNCHANGED <<intervals, latex, cleaned_source, text_intervals,
                   trackerVars, readerVars, handlerVars>>

NextWorkspace ==
    \/ \E a \in 0..Len(source), b \in 0..Len(source), text \in InsertedTexts :
          WorkspaceUpdateDocument(a, b, text)
    \/ Return

SpecWorkspace == InitWorkspace /\ [][NextWorkspace]_vars

----------------------------------------------------------------------------
(* Concurrent readers of one LaTeX document whose cleaned text is absent:  *)
(* each reader runs the property cleaned_source or                         *)
(* position_at_offset(0, cleaned=True), one statement at a time, and the   *)
(* statements of the readers interleave.  synchronized lets one caller at  *)
(* a time into _sync_clean_source.                                         *)

ReaderIds == 1..MaxReaders

ReaderCalls == {"cleaned_source", "position_at_offset"}

\* the document that is read: \section{t}, three fragments
ReadDocument == <<Section(<<"t">>)>>

InitReaders ==
    /\ latex = ReadDocument
    /\ source = Render(latex)
    /\ ret = NoCall
    /\ intervals = EmptyIntervalList
    /\ cleaned_source = None
    /\ text_intervals = None
    /\ items = <<>>
    /\ full_document_change = FALSE
    /\ \E calls \in [ReaderIds -> ReaderCalls] :
          readers = [r \in ReaderIds |->
                        [call |-> calls[r], pc |-> "start", k |-> 0,
                         offset |-> 0, res |-> None, saw |-> None]]
    /\ lock = 0
    /\ cleanings = 0
    /\ event = "none"
    /\ tasks = <<>>
    /\ messages = {}

\* if self._cleaned_source is None: the property goes on to
\* _sync_clean_source, position_at_offset to _clean_source
CheckCache(r) ==
    /\ readers[r].pc = "start"
    /\ readers' = [readers EXCEPT ![r].pc =
                      IF cleaned_source.kind # "none" THEN "read"
                      ELSE IF readers[r].call = "cleaned_source"
                      THEN "acquire" ELSE "reset"]
    /\ UNCHANGED <<source, ret, intervals, latex, cleaned_source,
                   text_intervals, trackerVars, lock, cleanings, handlerVars>>

\* synchronized: the lock is taken
Acquire(r) ==
    /\ readers[r].pc = "acquire"
    /\ lock = 0
    /\ lock' = r
    /\ readers' = [readers EXCEPT ![r].pc = "reset"]
    /\ UNCHANGED <<source, ret, intervals, latex, cleaned_source,
                   text_intervals, trackerVars, cleanings, handlerVars>>

\* _clean_source: the parse, self._text_intervals = OffsetPositionIntervalList()
\* and offset = 0
ResetIndex(r) ==
    /\ readers[r].pc = "reset"
    /\ text_intervals' = Ok(EmptyIntervalList)
    /\ cleanings' = cleanings + 1
    /\ readers' = [readers EXCEPT ![r].pc = "index", ![r].k = 0,
                                  ![r].offset = 0]
    /\ UNCHANGED <<source, ret, intervals, latex, cleaned_source,
                   trackerVars, lock, handlerVars>>

\* _clean_source: one turn of the for loop, on the list that
\* self._text_intervals holds now
IndexFragment(r) ==
    LET nodes == Fragments(latex) IN
    /\ readers[r].pc = "index"
    /\ readers[r].k < Len(nodes)
    /\ text_intervals' = Ok(index_fragment(text_intervals.val,
                                           nodes[readers[r].k + 1],
                                           readers[r].offset))
    /\ readers' = [readers EXCEPT
                      ![r].k = @ + 1,
                      ![r].offset = @ + Len(nodes[readers[r].k + 1].text)]
    /\ UNCHANGED <<source, ret, intervals, latex, cleaned_source,
                   trackerVars, lock, cleanings, handlerVars>>

\* _clean_source: self._cleaned_source = ''.join(self._text_intervals.values)
JoinValues(r) ==
    /\ readers[r].pc = "index"
    /\ readers[r].k = Len(Fragments(latex))
    /\ cleaned_source' = Ok(join(text_intervals.val.value))
    /\ readers' = [readers EXCEPT ![r].pc =
                      IF lock = r THEN "release" ELSE "read"]
    /\ UNCHANGED <<source, ret, intervals, latex, text_intervals,
                   trackerVars, lock, cleanings, handlerVars>>

\* synchronized: the lock is given back
Release(r) ==
    /\ readers[r].pc = "release"
    /\ lock' = 0
    /\ readers' = [readers EXCEPT ![r].pc = "read"]
    /\ UNCHANGED <<source, ret, intervals, latex, cleaned_source,
                   text_intervals, trackerVars, cleanings, handlerVars>>

\* the reader reads: the property returns self._cleaned_source,
\* position_at_offset looks the offset up in self._text_intervals
Read(r) ==
    /\ readers[r].pc = "read"
    /\ readers' = [readers EXCEPT
                      ![r].pc = "done",
                      ![r].saw = text_intervals,
                      ![r].res =
                          IF readers[r].call = "cleaned_source"
                          THEN cleaned_source
                          ELSE ts_position_at_offset(text_intervals.val, 0)]
    /\ UNCHANGED <<source, ret, intervals, latex, cleaned_source,
                   text_intervals, trackerVars, lock, cleanings, handlerVars>>

NextReaders ==
    \E r \in ReaderIds :
        \/ CheckCache(r)
        \/ Acquire(r)
        \/ ResetIndex(r)
        \/ IndexFragment(r)
        \/ JoinValues(r)
        \/ Release(r)
        \/ Read(r)

SpecReaders == InitReaders /\ [][NextReaders]_vars

----------------------------------------------------------------------------
(* An OffsetPositionIntervalList that is filled in any order and sorted.   *)
(* An entry of length n at offset o lies on line 0 from character o on,    *)
(* and carries one of two payloads.                                        *)

Payloads == {"x", "y"}

InitSort ==
    /\ source = <<>>
    /\ ret = NoCall
    /\ intervals = EmptyIntervalList
    /\ latex = <<>>
    /\ cleaned_source = None
    /\ text_intervals = None
    /\ items = <<>>
    /\ full_document_change = FALSE
    /\ readers = <<>>
    /\ lock = 0
    /\ cleanings = 0
    /\ event = "none"
    /\ tasks = <<>>
    /\ messages = {}

\* add_interval_values, whatever the entries appended so far
AddAnyInterval(offset_start, offset_end, value) ==
    /\ ret = NoCall
    /\ IntervalCount(intervals) < MaxEntries
    /\ offset_start <= offset_end
    /\ intervals' = add_interval_values(intervals, offset_start, offset_end,
                                        0, offset_start, 0, offset_end + 1,
                                        value)
    /\ UNCHANGED <<source, ret, latex, cleaned_source, text_intervals,
                   trackerVars, readerVars, handlerVars>>

\* sort(); the call records the entries the list held
Sort ==
    /\ ret = NoCall
    /\ IntervalCount(intervals) > 0
    /\ intervals' = sort(intervals)
    /\ ret' = [op |-> "sort", added |-> intervals]
    /\ UNCHANGED <<source, latex, cleaned_source, text_intervals,
                   trackerVars, readerVars, handlerVars>>

\* get_interval(idx) on the list sort() has left
GetInterval(idx) ==
    /\ ret.op = "sort"
    /\ idx < IntervalCount(intervals)
    /\ ret' = [op |-> "get_interval", idx |-> idx, added |-> ret.added,
               res |-> get_interval(intervals, idx)]
    /\ UNCHANGED <<source, intervals, latex, cleaned_source, text_intervals,
                   trackerVars, readerVars, handlerVars>>

NextSort ==
    \/ \E os \in 0..MaxOffset, oe \in 0..MaxOffset, v \in Payloads :
          AddAnyInterval(os, oe, v)
    \/ Sort
    \/ \E idx \in 0..(MaxEntries - 1) : GetInterval(idx)
    \/ Return

SpecSort == InitSort /\ [][NextSort]_vars

----------------------------------------------------------------------------
(* The AnalyserHandler: a lifecycle event makes one task per analyser      *)
(* (_submit_task), the event loop runs the tasks in any order, and the     *)
(* handler returns when asyncio.wait is over.  What an analyser does with  *)
(* the event is open: its method returns, raises AnalysisError or raises   *)
(* any other exception.                                                    *)

Events == {"did_open", "did_change", "did_save", "did_close"}

Outcomes == {"return", "AnalysisError", "Exception"}

\* a task made by loop.create_task, not run yet
Scheduled == [status |-> "scheduled", error |-> "none"]

\* the coroutine _did_open, _did_change, _did_save or _did_close of one
\* analyser, whose method ends with outcome: the task it leaves, and whether
\* the error is shown to the user.  Only AnalysisError is caught, and
\* _did_close catches nothing.
run_task(e, outcome) ==
    IF outcome = "return"
    THEN [task |-> [status |-> "finished", error |-> "none"],
          shown |-> FALSE]
    ELSE IF outcome = "AnalysisError" /\ e # "did_close"
    THEN [task |-> [status |-> "finished", error |-> outcome],
          shown |-> TRUE]
    ELSE [task |-> [status |-> "raised", error |-> outcome],
          shown |-> FALSE]

InitHandler ==
    /\ source = <<>>
    /\ ret = NoCall
    /\ intervals = EmptyIntervalList
    /\ latex = <<>>
    /\ cleaned_source = None
    /\ text_intervals = None
    /\ items = <<>>
    /\ full_document_change = FALSE
    /\ readers = <<>>
    /\ lock = 0
    /\ cleanings = 0
    /\ event = "none"
    /\ tasks = <<>>
    /\ messages = {}

\* did_open, did_change, did_save or did_close with n analysers enabled:
\* _submit_task makes their tasks
SubmitTask(e, n) ==
    /\ ret = NoCall
    /\ event = "none"
    /\ event' = e
    /\ tasks' = [a \in 1..n |-> Scheduled]
    /\ messages' = {}
    /\ UNCHANGED <<source, ret, intervals, latex, cleaned_source,
                   text_intervals, trackerVars, readerVars>>

\* the event loop runs the task of analyser a
RunTask(a, outcome) ==
    LET ran == run_task(event, outcome) IN
    /\ event # "none"
    /\ a \in DOMAIN tasks
    /\ tasks[a].status = "scheduled"
    /\ tasks' = [tasks EXCEPT ![a] = ran.task]
    /\ messages' = IF ran.shown
                   THEN messages \cup {[analyser |-> a, error |-> outcome]}
                   ELSE messages
    /\ UNCHANGED <<source, ret, intervals, latex, cleaned_source,
                   text_intervals, trackerVars, readerVars, event>>

\* asyncio.wait is over, or there was no task: the handler returns
HandlerReturn ==
    /\ event # "none"
    /\ \A a \in DOMAIN tasks : tasks[a].status # "scheduled"
    /\ ret' = [op |-> event, res |-> None]
    /\ event' = "none"
    /\ UNCHANGED <<source, intervals, latex, cleaned_source, text_intervals,
                   trackerVars, readerVars, tasks, messages>>

NextHandler ==
    \/ \E e \in Events, n \in 0..MaxAnalysers : SubmitTask(e, n)
    \/ \E a \in 1..MaxAnalysers, outcome \in Outcomes : RunTask(a, outcome)
    \/ HandlerReturn
    \/ Return

SpecHandler == InitHandler /\ [][NextHandler]_vars

----------------------------------------------------------------------------
(* Claims on the cleaning pipeline and the cleaned lookups *)

\* the entries of lst are sorted by start offset, follow one another without
\* gap or overlap from offset 0 on, and end at offset n - 1
PartitionsUpTo(lst, n) ==
    /\ \A i \in 1..IntervalCount(lst) :
          /\ lst.offset_start[i] <= lst.offset_end[i]
          /\ lst.offset_start[i] =
                (IF i = 1 THEN 0 ELSE lst.offset_end[i - 1] + 1)
    /\ IF IntervalCount(lst) = 0 THEN n = 0
       ELSE lst.offset_end[IntervalCount(lst)] = n - 1

\* C3: after every run of _clean_source the entries of the interval index
\* are sorted ascending by start offset, pairwise disjoint and contiguous,
\* cover exactly [0, len(cleaned_source)), and their payloads concatenated
\* in index order give cleaned_source.
C3_IndexPartitionsCleanedText ==
    cleaned_source.kind = "ok"
    => /\ text_intervals.kind = "ok"
       /\ PartitionsUpTo(text_intervals.val, Len(cleaned_source.val))
       /\ \A i \in 1..IntervalCount(text_intervals.val) :
             SubSeq(cleaned_source.val,
                    text_intervals.val.offset_start[i] + 1,
                    text_intervals.val.offset_end[i] + 1)
             = text_intervals.val.value[i]

\* the cleaning has run on a document with synthesized new lines and a
\* synthesized space among its fragments
C3_Witness ==
    /\ cleaned_source.kind = "ok"
    /\ text_intervals.kind = "ok"
    /\ IntervalCount(text_intervals.val) >= 5
    /\ \E i \in 1..IntervalCount(text_intervals.val) :
          text_intervals.val.value[i] = <<NL>>
    /\ \E i \in 1..IntervalCount(text_intervals.val) :
          text_intervals.val.value[i] = <<" ">>

\* C4: once cleaning has run, for every cleaned offset o with
\* 0 <= o < len(cleaned_source),
\* offset_at_position(position_at_offset(o, cleaned=True), cleaned=True)
\* returns o.
C4_CleanedRoundTrip ==
    (/\ ret.op = "offset_at_position"
     /\ ret.cleaned
     /\ ret.of_offset.kind = "ok"
     /\ 0 <= ret.of_offset.val
     /\ ret.of_offset.val < Len(cleaned_source.val))
    => (ret.res.kind = "ok" /\ ret.res.val = ret.of_offset.val)

----------------------------------------------------------------------------
(* Claims on the stand-alone interval list *)

\* the entries of lst are sorted by offset and pairwise disjoint
SortedDisjoint(lst) ==
    \A i \in 1..IntervalCount(lst) :
        /\ lst.offset_start[i] <= lst.offset_end[i]
        /\ i > 1 => lst.offset_end[i - 1] < lst.offset_start[i]

\* the entry holding offset, found by a scan of all entries
LinearScan(lst, offset) ==
    LET holds(i) == lst.offset_start[i] <= offset /\ offset <= lst.offset_end[i]
    IN  IF \E i \in 1..IntervalCount(lst) : holds(i)
        THEN Ok((CHOOSE i \in 1..IntervalCount(lst) : holds(i)) - 1)
        ELSE None

\* C7: on an index whose entries are sorted and disjoint,
\* get_idx_at_offset(offset) returns the index of the entry holding the
\* offset when there is one, and None when the offset is negative, falls in
\* a gap or lies past the last entry: it agrees with a linear scan.
C7_OffsetLookupIsLinearScan ==
    (ret.op = "get_idx_at_offset" /\ SortedDisjoint(intervals))
    => /\ ret.res.kind = LinearScan(intervals, ret.offset).kind
       /\ ret.res.kind = "ok"
            => ret.res.val = LinearScan(intervals, ret.offset).val

\* the second of two entries with a gap between them was looked up
C7_Witness ==
    /\ ret.op = "get_idx_at_offset"
    /\ IntervalCount(intervals) = 2
    /\ intervals.offset_end[1] + 1 < intervals.offset_start[2]
    /\ ret.res.kind = "ok"
    /\ ret.res.val = 1

\* the entries of lst are sorted by position: each starts no earlier than
\* the one before it ends
PositionSorted(lst) ==
    \A i \in 1..IntervalCount(lst) :
        LET e == get_interval(lst, i - 1).position_range IN
        /\ ~PositionBefore(e.end, e.start)
        /\ i > 1 => ~PositionBefore(e.start,
                                    get_interval(lst, i - 2).position_range.end)

\* the position range of entry i (0-based) of lst holds position
HoldsPosition(lst, i, position) ==
    LET e == get_interval(lst, i).position_range IN
    ~PositionBefore(position, e.start) /\ ~PositionBefore(e.end, position)

\* the entry that follows position most closely, the last entry when none
\* follows
NearestFollowing(lst, position) ==
    LET follows(i) ==
            PositionBefore(position, get_interval(lst, i).position_range.start)
        n == IntervalCount(lst)
    IN  IF \E i \in 0..(n - 1) : follows(i)
        THEN CHOOSE i \in 0..(n - 1) :
                 follows(i) /\ \A j \in 0..(i - 1) : ~follows(j)
        ELSE n - 1

\* C8: for a position that no interval of a position-sorted index holds,
\* get_idx_at_position returns None when strict is true and the index of the
\* nearest following interval (the last one when none follows) when strict
\* is false.
C8_PositionMissIsNoneOrNext ==
    (/\ ret.op = "get_idx_at_position"
     /\ IntervalCount(intervals) > 0
     /\ PositionSorted(intervals)
     /\ \A i \in 0..(IntervalCount(intervals) - 1) :
           ~HoldsPosition(intervals, i, ret.position))
    => IF ret.strict THEN ret.res.kind = "none"
       ELSE /\ ret.res.kind = "ok"
            /\ ret.res.val = NearestFollowing(intervals, ret.position)

\* the cleaning of the current raw text
FreshClean == clean_source(Fragments(latex))

\* the model's tokens are the parse of the raw text
SourceIsRendered == source = Render(latex)

\* C5: every read of cleaned_source returns the cleaning of the document's
\* current raw text: each apply_change leaves the cached value absent, and
\* the first read after it recomputes from the changed source, so that no
\* stale cleaned text and no stale interval index is observed.
C5_ReadsSeeCurrentCleaning ==
    /\ SourceIsRendered
    /\ ret.op = "apply_change" => cleaned_source.kind = "none"
    /\ ret.op = "cleaned_source"
         => ret.res.kind = "ok" /\ ret.res.val = FreshClean.cleaned_source
    /\ ret.op = "position_at_offset"
         => LET fresh == ts_position_at_offset(FreshClean.text_intervals,
                                               ret.offset)
            IN  /\ ret.res.kind = fresh.kind
                /\ ret.res.kind = "ok" => ret.res.val = fresh.val
    /\ cleaned_source.kind = "ok"
         => /\ cleaned_source.val = FreshClean.cleaned_source
            /\ text_intervals.kind = "ok"
            /\ text_intervals.val = FreshClean.text_intervals

\* a read ran the cleaning again after a change, and the cleaned text it
\* returned is not empty
C5_Witness ==
    /\ ret.op = "cleaned_source"
    /\ ret.recleaned
    /\ ret.res.val # <<>>
    /\ Len(latex) > 1

----------------------------------------------------------------------------
(* Claims on the ChangeTracker *)

RECURSIVE SumAbs(_)
\* the sum of the absolute values of the run lengths
SumAbs(runs) ==
    IF runs = <<>> THEN 0
    ELSE (IF Head(runs).length < 0 THEN -Head(runs).length
          ELSE Head(runs).length)
         + SumAbs(Tail(runs))

\* C2: after any sequence of update_document calls, each applied to the
\* document, the sum of the absolute values of the run lengths of the ledger
\* equals the current length of the tracked text, as long as no
\* full-document replacement has occurred.
C2_LedgerSumsToLength ==
    ~full_document_change => SumAbs(items) = Len(source)

----------------------------------------------------------------------------
(* Claims on the paragraphs of a range *)

\* the paragraphs of a text, as paragraph_at_offset gives them
AllParagraphs(src) ==
    {paragraph_at_offset(src, o, 0).val : o \in 0..(Len(src) - 1)}

\* the paragraph has a character between the offsets a (included) and b
Overlaps(paragraph, a, b) ==
    /\ a < b
    /\ paragraph.start < b
    /\ a < paragraph.start + paragraph.length

\* C11: for every position range inside the raw text, paragraphs_at_range
\* returns exactly the paragraphs (as paragraph_at_offset gives them) that
\* overlap the range, each once and in ascending order.
C11_ParagraphsOfRange ==
    ret.op = "paragraphs_at_range"
    => /\ ret.res.kind = "ok"
       /\ \A i \in 1..(Len(ret.res.val) - 1) :
             ret.res.val[i].start < ret.res.val[i + 1].start
       /\ {ret.res.val[i] : i \in 1..Len(ret.res.val)}
          = {p \in AllParagraphs(source) : Overlaps(p, ret.first, ret.last)}

\* C12: on a fresh ChangeTracker over a text of length L, one edit that
\* replaces r characters at offset p (p + r < L) by n >= r characters leaves
\* the ledger as an unchanged run of length p (omitted when p = 0), a
\* changed run of length n and an unchanged run of length L - p - r, whose
\* lengths sum to L + n - r, and get_changes() after the edit returns
\* exactly [Interval(p, n)].
C12_FirstEditLedger ==
    LET edit == IF ret.op = "get_changes" THEN ret.after ELSE ret
        L == Len(edit.before)
        p == edit.a
        r == edit.b - edit.a
        n == Len(edit.text)
    IN
    (/\ ret.op \in {"update_document", "get_changes"}
     /\ ret.edits = 1
     /\ ~edit.full
     /\ p + r < L
     /\ n >= r)
    => /\ edit.res.kind = "none"
       /\ items = (IF p = 0 THEN <<>> ELSE <<Run(p, FALSE)>>)
                  \o <<Run(n, TRUE), Run(L - p - r, FALSE)>>
       /\ SumAbs(items) = L + n - r
       /\ Len(source) = L + n - r
       /\ ret.op = "get_changes" => ret.res = Ok(<<Interval(p, n)>>)

\* get_changes() was called after a first edit that replaced one character
\* inside the text, not the first, by another
C12_Witness ==
    /\ ret.op = "get_changes"
    /\ ret.edits = 1
    /\ ~ret.after.full
    /\ ret.after.a > 0
    /\ ret.after.b = ret.after.a + 1
    /\ ret.after.b < Len(ret.after.before)
    /\ Len(ret.after.text) = 1
    /\ ret.res = Ok(<<Interval(ret.after.a, 1)>>)

\* C13: once update_document has received a full-document replacement, the
\* ledger is a single changed run and stays so: every later update_document
\* leaves the ledger unchanged, and get_changes() returns exactly
\* [Interval(0, current length of the tracked text)].
C13_FullChangeIsAbsorbing ==
    /\ [](full_document_change
          => /\ items = <<Run(-1, TRUE)>>
             /\ ret.op = "get_changes"
                => ret.res = Ok(<<Interval(0, Len(source))>>))
    /\ [][full_document_change
          => full_document_change' /\ items' = items]_vars

\* get_changes() was called after a full-document replacement and a later
\* partial edit
C13_Witness ==
    /\ ret.op = "get_changes"
    /\ ret.edits = MaxEdits
    /\ full_document_change
    /\ ~ret.after.full
    /\ Len(source) > 1

----------------------------------------------------------------------------
(* Claims on the analysers *)

\* C14: every diagnostic that LanguageToolAnalyser.did_open publishes for a
\* match at (offset, length) of the cleaned text carries the range that the
\* cleaned range_at_offset gives for that span, through the interval index.
C14_DiagnosticRangeIsTranslated ==
    ret.op = "did_open"
    => \A k \in 1..Len(ret.matches) :
          ret.res[k] = ts_range_at_offset(text_intervals.val,
                                          ret.matches[k].offset,
                                          ret.matches[k].errorLength)

\* C15: for every change event, TextLSPWorkspace.update_document applies
\* the mutation to the document before any analyser is notified of the
\* change: the handler is called on the post-edit document, and the
\* document holds the post-edit text when update_document is over.
C15_MutationBeforeNotification ==
    ret.op = "workspace_update_document"
    => LET edited == apply_incremental_change(ret.before, ret.change) IN
       /\ ret.res.kind # "raise"
       /\ source = edited
       /\ ret.handler_saw = edited

----------------------------------------------------------------------------
(* Claims on concurrent readers *)

\* C16: when several concurrently running readers find the cleaned text
\* absent, the cleaning is computed exactly once, and no reader observes an
\* interval index that does not match the cleaned text: a reader of
\* cleaned_source gets the cleaning of the raw text, a reader of
\* position_at_offset looks its offset up in the index of that cleaning.
C16_CleanedOnceForAllReaders ==
    /\ cleanings <= 1
    /\ \A r \in DOMAIN readers :
          readers[r].pc = "done"
          => IF readers[r].call = "cleaned_source"
             THEN readers[r].res = Ok(FreshClean.cleaned_source)
             ELSE /\ readers[r].saw = Ok(FreshClean.text_intervals)
                  /\ readers[r].res
                     = ts_position_at_offset(FreshClean.text_intervals, 0)

----------------------------------------------------------------------------
(* Claims on the AnalyserHandler *)

\* C17: if one analyser fails with any error while processing a lifecycle
\* event, the failure is caught and reported for that analyser, every other
\* analyser's task for the event still runs to completion, and did_open,
\* did_change, did_save and did_close return only after all the tasks of
\* the event have finished.
C17_FailuresCaughtAndReported ==
    ret.op \in Events
    => \A a \in DOMAIN tasks :
          /\ tasks[a].status # "scheduled"
          /\ tasks[a].error # "none"
             => /\ tasks[a].status = "finished"
                /\ [analyser |-> a, error |-> tasks[a].error] \in messages

----------------------------------------------------------------------------
(* Claims on sort() *)

\* the entries of a list, as get_interval returns them
EntriesOf(lst) == {get_interval(lst, i) : i \in 0..(IntervalCount(lst) - 1)}

\* C18: after entries are added in any order and sort() is called, the
\* entries are in ascending order of start offset, and for every index i
\* get_interval(i) returns the offset interval, position range and payload
\* of one and the same added entry.
C18_SortPermutesEntries ==
    /\ ret.op = "sort"
       => \A i \in 1..(Len(intervals.offset_start) - 1) :
             intervals.offset_start[i] <= intervals.offset_start[i + 1]
    /\ ret.op = "get_interval" => ret.res \in EntriesOf(ret.added)

----------------------------------------------------------------------------
(* Claims on the fragments of a LaTeX document *)

\* C19: the fragments _iterate_text_nodes yields, synthesized spaces and
\* new lines included, have source point ranges that are non-decreasing in
\* the order of emission and pairwise non-overlapping: every fragment
\* starts at or after the point where the one before it ends.
C19_FragmentRangesAscend ==
    cleaned_source.kind = "ok"
    => LET fr == Fragments(latex) IN
       \A i \in 1..(Len(fr) - 1) :
          /\ ~PointAfter(fr[i].start_point, fr[i].end_point)
          /\ ~PointAfter(fr[i].end_point, fr[i + 1].start_point)

\* a fragment taken from the source, not a synthesized space or new line
IsContent(f) == f.text # <<NL>> /\ f.text # <<" ">>

\* fr[i] and fr[j] are two content fragments with no content between them
ConsecutiveContent(fr, i, j) ==
    /\ i < j
    /\ IsContent(fr[i])
    /\ IsContent(fr[j])
    /\ \A k \in (i + 1)..(j - 1) : ~IsContent(fr[k])

\* the cleaned text between the fragments i and j
JoinerBetween(fr, i, j) == join([k \in 1..(j - i - 1) |-> fr[i + k].text])

\* a node captured for new lines ends after the first fragment has ended
\* and before the second starts
ClosesBetween(doc, first, second) ==
    \E k \in DOMAIN Captures(doc) :
        LET c == Captures(doc)[k] IN
        /\ c.name = NODE_NEWLINE_BEFORE_AFTER
        /\ ~PointAfter(first.end_point, c.end_point)
        /\ PointAfter(second.start_point, c.end_point)

\* the raw source has an empty line between the rows of the two fragments
BlankLineBetween(doc, first, second) ==
    LET ls == split_lines(Render(doc)) IN
    \E row \in (first.end_point[1] + 1)..(second.start_point[1] - 1) :
        ls[row + 1] = <<>>

\* C20: between two consecutive content fragments the cleaned text holds
\* exactly the two characters "\n\n", no further new line and no space,
\* whenever a node registered for new lines closes before the second
\* fragment or the raw source has a blank line between the two.
C20_OneParagraphBreak ==
    cleaned_source.kind = "ok"
    => LET fr == Fragments(latex) IN
       \A i, j \in DOMAIN fr :
          (/\ ConsecutiveContent(fr, i, j)
           /\ \/ ClosesBetween(latex, fr[i], fr[j])
              \/ BlankLineBetween(latex, fr[i], fr[j]))
          => JoinerBetween(fr, i, j) = <<NL, NL>>

----------------------------------------------------------------------------
(* Claims on the intervals of get_changes and on _get_offset_idx *)

\* C21: after any sequence of edits tracked by update_document, edits that
\* delete the whole text included, every Interval(start, length) that
\* get_changes() returns lies inside the current text: start >= 0,
\* length >= 0 and start + length <= length of the tracked text.
C21_ChangesInsideText ==
    ret.op = "get_changes"
    => \A i \in 1..Len(ret.res.val) :
          /\ ret.res.val[i].start >= 0
          /\ ret.res.val[i].length >= 0
          /\ ret.res.val[i].start + ret.res.val[i].length <= Len(source)

\* C22: for every edit whose range lies within the tracked text, an
\* insertion at the end of the text included, update_document completes
\* without error: _get_offset_idx returns the index of a run of the ledger
\* and never scans past the last run.
C22_UpdateDocumentCompletes ==
    (/\ ret.op = "update_document"
     /\ ret.a <= ret.b
     /\ ret.b <= Len(ret.before))
    => ret.res.kind = "none"

====
